---------------------------- MODULE Spec2Model ----------------------------
(***************************************************************************)
(* Model of the hydrothermal-carbonization code:                           *)
(*   feedstock.py  Feedstock, FeedstockManager                             *)
(*   model.py      quantity, water, heat, electricity and CO2 functions    *)
(*   pareto.py     get_pareto_front, is_dominant, pareto_sort              *)
(*   lcia.py       HydrocharLCIA                                           *)
(* Python floats are modelled as exact rationals <<numerator, denominator>>*)
(* in lowest terms; Python objects live in a heap (objs) and are referred  *)
(* to by their index, so that two references to one object are visible.    *)
(***************************************************************************)
EXTENDS Integers, Sequences, FiniteSets, TLC

VARIABLES objs, feedstocks, last, watered, data, lcia

vars == <<objs, feedstocks, last, watered, data, lcia>>

-----------------------------------------------------------------------------
(* Bounds of the model.                                                    *)

MaxObjects == 2
MaxRegistry == 2
MaxCompositeObjects == 3
MaxWaterObjects == 1
MaxRows == 3
MaxDensityDenominator == 200

-----------------------------------------------------------------------------
(* Float arithmetic, as exact rationals.                                   *)

RECURSIVE GCD(_, _)
GCD(a, b) == IF b = 0 THEN a ELSE GCD(b, a % b)

Abs(a) == IF a < 0 THEN -a ELSE a

R(n, d) ==
    LET s == IF d < 0 THEN -1 ELSE 1
        g == GCD(Abs(n), Abs(d))
    IN  <<(s * n) \div g, (s * d) \div g>>

Zero == <<0, 1>>
One == <<1, 1>>

RAdd(x, y) == R(x[1] * y[2] + y[1] * x[2], x[2] * y[2])
RSub(x, y) == R(x[1] * y[2] - y[1] * x[2], x[2] * y[2])
RMul(x, y) == R(x[1] * y[1], x[2] * y[2])
RDiv(x, y) == R(x[1] * y[2], x[2] * y[1])
RLt(x, y) == x[1] * y[2] < y[1] * x[2]
RLe(x, y) == x[1] * y[2] <= y[1] * x[2]
RSq(x) == RMul(x, x)

RECURSIVE ISqrtFrom(_, _)
ISqrtFrom(n, k) == IF (k + 1) * (k + 1) > n THEN k ELSE ISqrtFrom(n, k + 1)

(* x ** 0.5 for x >= 0: the exact root when numerator and denominator are  *)
(* perfect squares, otherwise the root rounded down to SqrtPrecision.      *)
SqrtPrecision == 1000

RSqrt(x) ==
    LET a == ISqrtFrom(x[1], 0)
        b == ISqrtFrom(x[2], 0)
    IN  IF a * a = x[1] /\ b * b = x[2]
        THEN R(a, b)
        ELSE R(ISqrtFrom((x[1] * SqrtPrecision * SqrtPrecision) \div x[2], 0),
               SqrtPrecision)

-----------------------------------------------------------------------------
(* Strings are sequences of one-character strings, so that the composite   *)
(* name grammar can be parsed as the regular expression parses it.         *)

Letters ==
    {"a", "b", "c", "d", "e", "f", "g", "h", "i", "j", "k", "l", "m",
     "n", "o", "p", "q", "r", "s", "t", "u", "v", "w", "x", "y", "z",
     "A", "B", "C", "D", "E", "F", "G", "H", "I", "J", "K", "L", "M",
     "N", "O", "P", "Q", "R", "S", "T", "U", "V", "W", "X", "Y", "Z"}

DigitValue ==
    [c \in {"0", "1", "2", "3", "4", "5", "6", "7", "8", "9"} |->
        CASE c = "0" -> 0 [] c = "1" -> 1 [] c = "2" -> 2 [] c = "3" -> 3
          [] c = "4" -> 4 [] c = "5" -> 5 [] c = "6" -> 6 [] c = "7" -> 7
          [] c = "8" -> 8 [] c = "9" -> 9]

Digits == DOMAIN DigitValue

NoName == <<>>

-----------------------------------------------------------------------------
(* Feedstock.__init__                                                      *)

MoistureDefault == R(17, 20)

Feedstock(name, hhv, hhv_std, moisture, moisture_std, density, time, temp) ==
    [name |-> name,
     hhv |-> hhv,
     hhv_std |-> hhv_std,
     moisture |-> moisture,
     moisture_std |-> moisture_std,
     moisture_content_target |->
        IF RLe(MoistureDefault, moisture) THEN moisture ELSE MoistureDefault,
     density |-> density,
     water_added |-> Zero,
     quantity |-> Zero,
     temp |-> temp,
     time |-> time]

DefaultTime == 1
DefaultTemp == 190

-----------------------------------------------------------------------------
(* The record of the last call: the operation, its arguments, the          *)
(* exception it raised ("none" when it returned) and what it returned (an  *)
(* object reference in obj, a float in num).  For the water and quantity   *)
(* functions yield_HC is the yield passed, and again says that the call    *)
(* repeats the call before it: same function, same feedstock, same yield.  *)

NoObj == 0

Call(op, self, name, new_name, temp, time, err, obj, num) ==
    [op |-> op, self |-> self, name |-> name, new_name |-> new_name,
     temp |-> temp, time |-> time, yield_HC |-> Zero, again |-> FALSE,
     err |-> err, obj |-> obj, num |-> num]

Ids == DOMAIN objs

-----------------------------------------------------------------------------
(* Python values that meet in a comparison: a str and a reference to a     *)
(* Feedstock.  Feedstock defines no __eq__, so == between two values is    *)
(* true only for two equal strs or two references to the same object.      *)

StrValue(s) == [type |-> "str", value |-> s]
ObjRef(id) == [type |-> "Feedstock", value |-> id]

PyEquals(a, b) == a.type = b.type /\ a.value = b.value

(* x in list *)
InList(x, list) == \E i \in DOMAIN list : PyEquals(list[i], x)

(* del list[key]: a list is indexed by integers only. *)
DelItem(list, key) ==
    IF key.type # "int"
    THEN [err |-> "TypeError", list |-> list]
    ELSE IF key.value \notin DOMAIN list
    THEN [err |-> "IndexError", list |-> list]
    ELSE [err |-> "none",
          list |-> SubSeq(list, 1, key.value - 1)
                   \o SubSeq(list, key.value + 1, Len(list))]

-----------------------------------------------------------------------------
(* FeedstockManager                                                        *)

(* Matches, were the lookup by name alone. *)
MatchesNameOnly(f, name, temp, time) == f.name = name

Matches(f, name, temp, time) ==
    f.name = name /\ f.temp = temp /\ f.time = time

RECURSIVE get_feedstock_from(_, _, _, _)
get_feedstock_from(i, name, temp, time) ==
    IF i > Len(feedstocks)
    THEN [err |-> "ValueError", obj |-> NoObj]
    ELSE IF Matches(objs[feedstocks[i]], name, temp, time)
    THEN [err |-> "none", obj |-> feedstocks[i]]
    ELSE get_feedstock_from(i + 1, name, temp, time)

get_feedstock(name, temp, time) == get_feedstock_from(1, name, temp, time)

(* A call of get_feedstock with the positional arguments args: the method  *)
(* takes exactly GetFeedstockArity of them besides self.                   *)
GetFeedstockArity == 3

call_get_feedstock(args) ==
    IF Len(args) # GetFeedstockArity
    THEN [err |-> "TypeError", obj |-> NoObj]
    ELSE get_feedstock(args[1], args[2], args[3])

delete_feedstock(name) ==
    IF InList(StrValue(name), [i \in DOMAIN feedstocks |-> ObjRef(feedstocks[i])])
    THEN DelItem(feedstocks, StrValue(name))
    ELSE [err |-> "ValueError", list |-> feedstocks]

(* duplicate_feedstock, were the copy the original object under a new      *)
(* name instead of a new object.                                           *)
duplicate_feedstock_shared(original_name, new_name, temp, time) ==
    LET found == get_feedstock(original_name, temp, time)
    IN  IF found.err # "none"
        THEN [err |-> found.err, obj |-> NoObj,
              objs |-> objs, feedstocks |-> feedstocks]
        ELSE [err |-> "none", obj |-> found.obj,
              objs |-> [objs EXCEPT ![found.obj].name = new_name],
              feedstocks |-> Append(feedstocks, found.obj)]

duplicate_feedstock(original_name, new_name, temp, time) ==
    LET found == get_feedstock(original_name, temp, time)
        original_feedstock == objs[found.obj]
        constructed == Feedstock(new_name,
                                 original_feedstock.hhv,
                                 original_feedstock.hhv_std,
                                 original_feedstock.moisture,
                                 original_feedstock.moisture_std,
                                 original_feedstock.density,
                                 DefaultTime, DefaultTemp)
        new_feedstock == [constructed EXCEPT
                            !.temp = original_feedstock.temp,
                            !.time = original_feedstock.time,
                            !.water_added = original_feedstock.water_added,
                            !.quantity = original_feedstock.quantity]
        new_id == Len(objs) + 1
    IN  IF found.err # "none"
        THEN [err |-> found.err, obj |-> NoObj,
              objs |-> objs, feedstocks |-> feedstocks]
        ELSE [err |-> "none", obj |-> new_id,
              objs |-> Append(objs, new_feedstock),
              feedstocks |-> Append(feedstocks, new_id)]

-----------------------------------------------------------------------------
(* Actions: one per operation.                                             *)

NewFeedstock(name, hhv, hhv_std, moisture, moisture_std, density, time, temp) ==
    /\ objs' = Append(objs, Feedstock(name, hhv, hhv_std, moisture,
                                      moisture_std, density, time, temp))
    /\ last' = Call("Feedstock", Len(objs) + 1, name, NoName, temp, time,
                    "none", Len(objs) + 1, Zero)
    /\ UNCHANGED <<feedstocks, watered, data, lcia>>

AddFeedstock(id) ==
    /\ feedstocks' = Append(feedstocks, id)
    /\ last' = Call("add_feedstock", NoObj, objs[id].name, NoName,
                    objs[id].temp, objs[id].time, "none", id, Zero)
    /\ UNCHANGED <<objs, watered, data, lcia>>

DeleteFeedstock(name) ==
    LET r == delete_feedstock(name)
    IN  /\ feedstocks' = r.list
        /\ last' = Call("delete_feedstock", NoObj, name, NoName,
                        DefaultTemp, DefaultTime, r.err, NoObj, Zero)
        /\ UNCHANGED <<objs, watered, data, lcia>>

GetFeedstock(name, temp, time) ==
    LET r == call_get_feedstock(<<name, temp, time>>)
    IN  /\ last' = Call("get_feedstock", NoObj, name, NoName, temp, time,
                        r.err, r.obj, Zero)
        /\ UNCHANGED <<objs, feedstocks, watered, data, lcia>>

DuplicateFeedstock(original_name, new_name, temp, time) ==
    LET r == duplicate_feedstock(original_name, new_name, temp, time)
    IN  /\ objs' = r.objs
        /\ feedstocks' = r.feedstocks
        /\ last' = Call("duplicate_feedstock", NoObj, original_name, new_name,
                        temp, time, r.err, r.obj, Zero)
        /\ UNCHANGED <<watered, data, lcia>>

SetHhv(id, hhv, hhv_std) ==
    /\ objs' = [objs EXCEPT ![id].hhv = hhv, ![id].hhv_std = hhv_std]
    /\ last' = Call("set_hhv", id, objs[id].name, NoName, objs[id].temp,
                    objs[id].time, "none", NoObj, Zero)
    /\ UNCHANGED <<feedstocks, watered, data, lcia>>

SetMoisture(id, moisture, mc_std) ==
    /\ objs' = [objs EXCEPT ![id].moisture = moisture,
                            ![id].moisture_std = mc_std]
    /\ last' = Call("set_moisture", id, objs[id].name, NoName, objs[id].temp,
                    objs[id].time, "none", NoObj, Zero)
    /\ UNCHANGED <<feedstocks, watered, data, lcia>>

-----------------------------------------------------------------------------
(* Inputs.  The rows of the FeedsProperties sheet and the reaction         *)
(* conditions the feedstocks are replicated for.                           *)

SRU == <<"S", "R", "U">>
DCW == <<"D", "C", "W">>
StdSRU == <<"s", "t", "d">> \o SRU

FeedsProperties ==
    {[Feed |-> SRU, HHV |-> R(20, 1), HHV_std |-> R(3, 1),
      moisture |-> R(1, 2), moisture_std |-> R(1, 10), density |-> R(500, 1)],
     [Feed |-> DCW, HHV |-> R(10, 1), HHV_std |-> R(4, 1),
      moisture |-> R(9, 10), moisture_std |-> R(1, 20), density |-> R(1000, 1)]}

NewElementary(row, time, temp) ==
    NewFeedstock(row.Feed, row.HHV, row.HHV_std, row.moisture,
                 row.moisture_std, row.density, time, temp)

(* No DataFrame has been built and no HydrocharLCIA created. *)
NoData == <<>>
NoLcia == <<>>

Init ==
    /\ objs = <<>>
    /\ feedstocks = <<>>
    /\ watered = {}
    /\ data = NoData
    /\ lcia = NoLcia
    /\ last = Call("init", NoObj, NoName, NoName, DefaultTemp, DefaultTime,
                   "none", NoObj, Zero)

-----------------------------------------------------------------------------
(* The registry under its operations.                                      *)

RegistryNames == {SRU, DCW, StdSRU}

(* (temp, time) pairs out of HTC_temp x HTC_reaction_time. *)
RegistryConditions == {<<190, 1>>, <<220, 1>>}

NextRegistry ==
    \/ /\ Len(objs) < MaxObjects
       /\ \E row \in FeedsProperties, c \in RegistryConditions :
            NewElementary(row, c[2], c[1])
    \/ /\ Len(feedstocks) < MaxRegistry
       /\ \E id \in Ids : AddFeedstock(id)
    \/ \E name \in RegistryNames : DeleteFeedstock(name)
    \/ \E name \in RegistryNames, c \in RegistryConditions :
            GetFeedstock(name, c[1], c[2])
    \/ /\ Len(objs) < MaxObjects
       /\ Len(feedstocks) < MaxRegistry
       /\ \E row \in FeedsProperties, c \in RegistryConditions :
            \E new_name \in {row.Feed, StdSRU} :
                DuplicateFeedstock(row.Feed, new_name, c[1], c[2])
    \/ \E id \in Ids : SetHhv(id, R(15, 1), R(1, 1))

SpecRegistry == Init /\ [][NextRegistry]_vars

-----------------------------------------------------------------------------
(* Properties of the registry.                                             *)

Registered == {feedstocks[i] : i \in DOMAIN feedstocks}

HasTriple(f, name, temp, time) ==
    f.name = name /\ f.temp = temp /\ f.time = time

(* C1: get_feedstock(name, temp, time) returns a registered feedstock      *)
(* whose name, temp and time all equal the arguments, and raises           *)
(* ValueError whenever no registered feedstock matches all three.          *)
C1_GetFeedstockExactMatch ==
    last.op = "get_feedstock" =>
        IF \E id \in Registered :
                HasTriple(objs[id], last.name, last.temp, last.time)
        THEN /\ last.err = "none"
             /\ last.obj \in Registered
             /\ HasTriple(objs[last.obj], last.name, last.temp, last.time)
        ELSE /\ last.err = "ValueError"
             /\ last.obj = NoObj

(* A lookup that fails although the name is registered, under another      *)
(* temp or time.                                                           *)
C1_Witness ==
    /\ last.op = "get_feedstock"
    /\ last.err = "ValueError"
    /\ \E id \in Registered :
        /\ objs[id].name = last.name
        /\ (objs[id].temp # last.temp \/ objs[id].time # last.time)

(* C2: no two feedstocks held by the registry have the same                *)
(* (name, temp, time) triple.                                              *)
C2_UniqueTriples ==
    \A i, j \in DOMAIN feedstocks :
        i # j =>
            ~HasTriple(objs[feedstocks[i]], objs[feedstocks[j]].name,
                       objs[feedstocks[j]].temp, objs[feedstocks[j]].time)

(* C3: delete_feedstock(name) on a registry that holds a feedstock with    *)
(* that name does not raise, removes one entry of that name and leaves     *)
(* every other entry and every feedstock unchanged.                        *)
C3_DeleteRemoves ==
    [][(/\ last'.op = "delete_feedstock"
        /\ \E i \in DOMAIN feedstocks : objs[feedstocks[i]].name = last'.name)
       => /\ last'.err = "none"
          /\ objs' = objs
          /\ \E i \in DOMAIN feedstocks :
                /\ objs[feedstocks[i]].name = last'.name
                /\ feedstocks' = SubSeq(feedstocks, 1, i - 1)
                                 \o SubSeq(feedstocks, i + 1, Len(feedstocks))
      ]_vars

(* C4: duplicate_feedstock(original_name, new_name, temp, time) with the   *)
(* source triple registered appends exactly one new feedstock and returns  *)
(* it; it is a new object named new_name with the requested temp and time  *)
(* and the source's hhv, hhv_std, moisture, moisture_std, density,         *)
(* water_added and quantity; every feedstock that existed is unchanged,    *)
(* and a later set_hhv on one feedstock changes no other.  With the        *)
(* source triple not registered it raises ValueError and changes nothing.  *)
C4_DuplicateCopies ==
    [][/\ last'.op = "duplicate_feedstock" =>
            LET sources == {id \in Registered :
                              HasTriple(objs[id], last'.name, last'.temp,
                                        last'.time)}
                new == last'.obj
            IN  IF sources = {}
                THEN /\ last'.err = "ValueError"
                     /\ objs' = objs
                     /\ feedstocks' = feedstocks
                ELSE /\ last'.err = "none"
                     /\ new \notin DOMAIN objs
                     /\ DOMAIN objs' = DOMAIN objs \cup {new}
                     /\ feedstocks' = Append(feedstocks, new)
                     /\ \A id \in DOMAIN objs : objs'[id] = objs[id]
                     /\ objs'[new].name = last'.new_name
                     /\ objs'[new].temp = last'.temp
                     /\ objs'[new].time = last'.time
                     /\ \E id \in sources :
                          /\ objs'[new].hhv = objs[id].hhv
                          /\ objs'[new].hhv_std = objs[id].hhv_std
                          /\ objs'[new].moisture = objs[id].moisture
                          /\ objs'[new].moisture_std = objs[id].moisture_std
                          /\ objs'[new].density = objs[id].density
                          /\ objs'[new].water_added = objs[id].water_added
                          /\ objs'[new].quantity = objs[id].quantity
       /\ last'.op = "set_hhv" =>
            \A id \in DOMAIN objs \ {last'.self} : objs'[id] = objs[id]
      ]_vars

(* A copy made under a new name of a feedstock whose hhv had been set.     *)
C4_Witness ==
    /\ last.op = "duplicate_feedstock"
    /\ last.err = "none"
    /\ last.new_name # last.name
    /\ objs[last.obj].name = last.new_name
    /\ \E id \in Registered \ {last.obj} :
        /\ HasTriple(objs[id], last.name, last.temp, last.time)
        /\ objs[id].hhv = R(15, 1)
        /\ objs[last.obj].hhv = R(15, 1)

-----------------------------------------------------------------------------
(* Composite names: re.findall(r'([A-Za-z]+)(\d+)', name) and              *)
(* float(percent_str) / 100.                                               *)

RECURSIVE RunEnd(_, _, _)
RunEnd(s, i, class) ==
    IF i <= Len(s) /\ s[i] \in class THEN RunEnd(s, i + 1, class) ELSE i

(* The matches from position i on, left to right and not overlapping: a    *)
(* longest run of letters followed by a longest run of digits; where no    *)
(* match starts at i the search moves on to i + 1.                         *)
RECURSIVE FindAllFrom(_, _)
FindAllFrom(s, i) ==
    IF i > Len(s)
    THEN <<>>
    ELSE LET j == RunEnd(s, i, Letters)
             k == RunEnd(s, j, Digits)
         IN  IF j > i /\ k > j
             THEN <<[feedstock_name |-> SubSeq(s, i, j - 1),
                     percent_str |-> SubSeq(s, j, k - 1)]>>
                  \o FindAllFrom(s, k)
             ELSE FindAllFrom(s, i + 1)

FindAll(s) == FindAllFrom(s, 1)

RECURSIVE DecimalValue(_, _)
DecimalValue(digits, n) ==
    IF n = 0 THEN 0
    ELSE 10 * DecimalValue(digits, n - 1) + DigitValue[digits[n]]

PercentOf(percent_str) == R(DecimalValue(percent_str, Len(percent_str)), 100)

-----------------------------------------------------------------------------
(* Feedstock.compute_hhv / compute_density / compute_moisture /            *)
(* compute_quantity.  Each loop looks a component up with                  *)
(* feedstock_manager.get_feedstock(feedstock_name): one argument.          *)

RECURSIVE hhv_loop(_, _, _, _)
hhv_loop(tokens, i, composite_hhv, composite_hhv_std) ==
    IF i > Len(tokens)
    THEN [err |-> "none", hhv |-> composite_hhv, hhv_std |-> composite_hhv_std]
    ELSE LET percent == PercentOf(tokens[i].percent_str)
             found == call_get_feedstock(<<tokens[i].feedstock_name>>)
             feedstock == objs[found.obj]
         IN  IF found.err # "none"
             THEN [err |-> found.err, hhv |-> composite_hhv,
                   hhv_std |-> composite_hhv_std]
             ELSE hhv_loop(tokens, i + 1,
                    RAdd(composite_hhv, RMul(feedstock.hhv, percent)),
                    RAdd(composite_hhv_std,
                         RSq(RMul(feedstock.hhv_std, percent))))

compute_hhv(self) ==
    LET r == hhv_loop(FindAll(self.name), 1, Zero, Zero)
    IN  IF r.err # "none"
        THEN [err |-> r.err, self |-> self]
        ELSE [err |-> "none",
              self |-> [self EXCEPT !.hhv = r.hhv,
                                    !.hhv_std = RSqrt(r.hhv_std)]]

RECURSIVE density_loop(_, _, _)
density_loop(tokens, i, composite_density) ==
    IF i > Len(tokens)
    THEN [err |-> "none", density |-> composite_density]
    ELSE LET percent == PercentOf(tokens[i].percent_str)
             found == call_get_feedstock(<<tokens[i].feedstock_name>>)
             feedstock == objs[found.obj]
         IN  IF found.err # "none"
             THEN [err |-> found.err, density |-> composite_density]
             ELSE density_loop(tokens, i + 1,
                    RAdd(composite_density, RMul(feedstock.density, percent)))

compute_density(self) ==
    LET r == density_loop(FindAll(self.name), 1, Zero)
    IN  IF r.err # "none"
        THEN [err |-> r.err, self |-> self]
        ELSE [err |-> "none", self |-> [self EXCEPT !.density = r.density]]

RECURSIVE moisture_loop(_, _, _, _)
moisture_loop(tokens, i, composite_moisture, composite_mc_std) ==
    IF i > Len(tokens)
    THEN [err |-> "none", moisture |-> composite_moisture,
          moisture_std |-> composite_mc_std]
    ELSE LET percent == PercentOf(tokens[i].percent_str)
             found == call_get_feedstock(<<tokens[i].feedstock_name>>)
             feedstock == objs[found.obj]
         IN  IF found.err # "none"
             THEN [err |-> found.err, moisture |-> composite_moisture,
                   moisture_std |-> composite_mc_std]
             ELSE moisture_loop(tokens, i + 1,
                    RAdd(composite_moisture, RMul(feedstock.moisture, percent)),
                    RAdd(composite_mc_std,
                         RSq(RMul(feedstock.moisture_std, percent))))

compute_moisture(self) ==
    LET r == moisture_loop(FindAll(self.name), 1, Zero, Zero)
    IN  IF r.err # "none"
        THEN [err |-> r.err, self |-> self]
        ELSE [err |-> "none",
              self |-> [self EXCEPT !.moisture = r.moisture,
                                    !.moisture_std = RSqrt(r.moisture_std)]]

RECURSIVE quantity_loop(_, _, _)
quantity_loop(tokens, i, composite_quantity) ==
    IF i > Len(tokens)
    THEN [err |-> "none", quantity |-> composite_quantity]
    ELSE LET percent == PercentOf(tokens[i].percent_str)
             found == call_get_feedstock(<<tokens[i].feedstock_name>>)
             feedstock == objs[found.obj]
         IN  IF found.err # "none"
             THEN [err |-> found.err, quantity |-> composite_quantity]
             ELSE quantity_loop(tokens, i + 1,
                    RAdd(composite_quantity, RMul(feedstock.quantity, percent)))

compute_quantity(self) ==
    LET r == quantity_loop(FindAll(self.name), 1, Zero)
    IN  IF r.err # "none"
        THEN [err |-> r.err, self |-> self]
        ELSE [err |-> "none", self |-> [self EXCEPT !.quantity = r.quantity]]

Computed(op, id, r) ==
    /\ objs' = [objs EXCEPT ![id] = r.self]
    /\ last' = Call(op, id, objs[id].name, NoName, objs[id].temp,
                    objs[id].time, r.err, NoObj, Zero)
    /\ UNCHANGED <<feedstocks, watered, data, lcia>>

ComputeHhv(id) == Computed("compute_hhv", id, compute_hhv(objs[id]))

ComputeDensity(id) == Computed("compute_density", id, compute_density(objs[id]))

ComputeMoisture(id) == Computed("compute_moisture", id, compute_moisture(objs[id]))

ComputeQuantity(id) == Computed("compute_quantity", id, compute_quantity(objs[id]))

-----------------------------------------------------------------------------
(* Composites under resolution.  A composite is created with the           *)
(* constructor's default (zero) properties.                                *)

SRU30_DCW70 == SRU \o <<"3", "0", "_">> \o DCW \o <<"7", "0">>
SRU_DCW == SRU \o <<"_">> \o DCW

CompositeNames == {SRU30_DCW70, SRU_DCW}

NewComposite(name, time, temp) ==
    NewFeedstock(name, Zero, Zero, Zero, Zero, Zero, time, temp)

(* The compute_* methods are called on composite feedstocks. *)
Composites == {id \in Ids : objs[id].name \in CompositeNames}

NextComposite ==
    \/ /\ Len(objs) < MaxCompositeObjects
       /\ \E row \in FeedsProperties, c \in RegistryConditions :
            NewElementary(row, c[2], c[1])
    \/ /\ Len(objs) < MaxCompositeObjects
       /\ \E name \in CompositeNames, c \in RegistryConditions :
            NewComposite(name, c[2], c[1])
    \/ /\ Len(feedstocks) < MaxRegistry
       /\ \E id \in Ids : AddFeedstock(id)
    \/ \E id \in Composites : ComputeHhv(id)
    \/ \E id \in Composites : ComputeDensity(id)
    \/ \E id \in Composites : ComputeMoisture(id)
    \/ \E id \in Composites : ComputeQuantity(id)

SpecComposite == Init /\ [][NextComposite]_vars

-----------------------------------------------------------------------------
(* Properties of composite resolution.                                     *)

ComputeOps ==
    {"compute_hhv", "compute_density", "compute_moisture", "compute_quantity"}

FieldOf(op) ==
    CASE op = "compute_hhv" -> "hhv"
      [] op = "compute_density" -> "density"
      [] op = "compute_moisture" -> "moisture"
      [] op = "compute_quantity" -> "quantity"

(* The (component name, weight) pairs a composite name encodes. *)
TokensOf(name) ==
    LET found == FindAll(name)
    IN  [i \in DOMAIN found |->
            [component |-> found[i].feedstock_name,
             weight |-> PercentOf(found[i].percent_str)]]

RECURSIVE SumWeights(_, _)
SumWeights(tokens, n) ==
    IF n = 0 THEN Zero ELSE RAdd(SumWeights(tokens, n - 1), tokens[n].weight)

IsRegistered(name, temp, time) ==
    \E id \in Registered : HasTriple(objs[id], name, temp, time)

ComponentOf(name, temp, time) ==
    objs[CHOOSE id \in Registered : HasTriple(objs[id], name, temp, time)]

AllRegistered(tokens, temp, time) ==
    \A i \in DOMAIN tokens : IsRegistered(tokens[i].component, temp, time)

RECURSIVE WeightedSum(_, _, _, _, _)
WeightedSum(tokens, n, temp, time, field) ==
    IF n = 0 THEN Zero
    ELSE RAdd(WeightedSum(tokens, n - 1, temp, time, field),
              RMul(tokens[n].weight,
                   ComponentOf(tokens[n].component, temp, time)[field]))

(* C5: for a composite whose tokens sum to 100 percent and whose           *)
(* components are all registered for its (temp, time), each compute_*      *)
(* method sets its field to the sum over the tokens of weight times the    *)
(* component's value of that field.                                        *)
C5_WeightedSums ==
    LET self == objs[last.self]
        tokens == TokensOf(self.name)
    IN  (/\ last.op \in ComputeOps
         /\ tokens # <<>>
         /\ SumWeights(tokens, Len(tokens)) = One
         /\ AllRegistered(tokens, self.temp, self.time))
        => self[FieldOf(last.op)]
             = WeightedSum(tokens, Len(tokens), self.temp, self.time,
                           FieldOf(last.op))

(* C6: for a composite of two registered components, compute_hhv sets      *)
(* hhv_std, and compute_moisture sets moisture_std, to a value whose       *)
(* square is (w1*s1)^2 + (w2*s2)^2.                                        *)
C6_QuadratureStd ==
    LET self == objs[last.self]
        tokens == TokensOf(self.name)
        std == IF last.op = "compute_hhv" THEN "hhv_std" ELSE "moisture_std"
        s1 == ComponentOf(tokens[1].component, self.temp, self.time)[std]
        s2 == ComponentOf(tokens[2].component, self.temp, self.time)[std]
    IN  (/\ last.op \in {"compute_hhv", "compute_moisture"}
         /\ Len(tokens) = 2
         /\ AllRegistered(tokens, self.temp, self.time))
        => RSq(self[std]) = RAdd(RSq(RMul(tokens[1].weight, s1)),
                                 RSq(RMul(tokens[2].weight, s2)))

(* C7: a compute_* method on a composite raises the registry's ValueError  *)
(* when some component is not registered for the composite's (temp, time)  *)
(* and does not raise when all of them are.                                *)
C7_NotFoundIffMissing ==
    LET self == objs[last.self]
        tokens == TokensOf(self.name)
    IN  (last.op \in ComputeOps /\ tokens # <<>>)
        => IF AllRegistered(tokens, self.temp, self.time)
           THEN last.err = "none"
           ELSE last.err = "ValueError"

-----------------------------------------------------------------------------
(* Feedstock.compute_water_added                                           *)

(* compute_water_added, were the test ideal_mc >= self.moisture. *)
compute_water_added_at_target(self) ==
    LET ideal_mc == self.moisture_content_target
    IN  IF RLe(self.moisture, ideal_mc)
        THEN IF RSub(One, self.moisture) = Zero
             THEN [err |-> "ZeroDivisionError", self |-> self, ret |-> Zero]
             ELSE LET water_needed ==
                        RDiv(RMul(self.quantity, RSub(One, ideal_mc)),
                             RSub(One, self.moisture))
                  IN  [err |-> "none",
                       self |-> [self EXCEPT !.water_added = water_needed,
                                             !.moisture = ideal_mc],
                       ret |-> water_needed]
        ELSE [err |-> "none", self |-> self, ret |-> self.water_added]

(* compute_water_added, were the moisture overwritten before the water is  *)
(* computed from it.                                                       *)
compute_water_added_overwrite_first(self) ==
    LET ideal_mc == self.moisture_content_target
    IN  IF RLt(self.moisture, ideal_mc)
        THEN LET water_needed ==
                    RDiv(RMul(self.quantity, RSub(One, ideal_mc)),
                         RSub(One, ideal_mc))
             IN  [err |-> "none",
                  self |-> [self EXCEPT !.water_added = water_needed,
                                        !.moisture = ideal_mc],
                  ret |-> water_needed]
        ELSE [err |-> "none", self |-> self, ret |-> self.water_added]

(* compute_water_added, were the water reset to zero when none is needed. *)
compute_water_added_reset(self) ==
    LET ideal_mc == self.moisture_content_target
    IN  IF RLt(self.moisture, ideal_mc)
        THEN LET water_needed ==
                    RDiv(RMul(self.quantity, RSub(One, ideal_mc)),
                         RSub(One, self.moisture))
             IN  [err |-> "none",
                  self |-> [self EXCEPT !.water_added = water_needed,
                                        !.moisture = ideal_mc],
                  ret |-> water_needed]
        ELSE [err |-> "none", self |-> [self EXCEPT !.water_added = Zero],
              ret |-> Zero]

compute_water_added(self) ==
    LET ideal_mc == self.moisture_content_target
    IN  IF RLt(self.moisture, ideal_mc)
        THEN IF RSub(One, self.moisture) = Zero
             THEN [err |-> "ZeroDivisionError", self |-> self, ret |-> Zero]
             ELSE LET water_needed ==
                        RDiv(RMul(self.quantity, RSub(One, ideal_mc)),
                             RSub(One, self.moisture))
                  IN  [err |-> "none",
                       self |-> [self EXCEPT !.water_added = water_needed,
                                             !.moisture = ideal_mc],
                       ret |-> water_needed]
        ELSE [err |-> "none", self |-> self, ret |-> self.water_added]

-----------------------------------------------------------------------------
(* model.get_feedstock_quantity, model.get_water_quantity                  *)

(* get_feedstock_quantity, were a quantity that has been set kept instead  *)
(* of computed again.                                                      *)
get_feedstock_quantity_once(yield_HC, feedstock) ==
    LET divisor == RMul(yield_HC, RSub(One, feedstock.moisture))
        feedstock_quantity ==
            IF feedstock.quantity # Zero THEN feedstock.quantity
            ELSE RDiv(One, divisor)
    IN  IF divisor = Zero
        THEN [err |-> "ZeroDivisionError", self |-> feedstock, ret |-> Zero]
        ELSE [err |-> "none",
              self |-> [feedstock EXCEPT !.quantity = feedstock_quantity],
              ret |-> feedstock_quantity]

get_feedstock_quantity(yield_HC, feedstock) ==
    LET divisor == RMul(yield_HC, RSub(One, feedstock.moisture))
        feedstock_quantity == RDiv(One, divisor)
    IN  IF divisor = Zero
        THEN [err |-> "ZeroDivisionError", self |-> feedstock, ret |-> Zero]
        ELSE [err |-> "none",
              self |-> [feedstock EXCEPT !.quantity = feedstock_quantity],
              ret |-> feedstock_quantity]

get_water_quantity(yield_HC, feedstock) ==
    LET divisor == RMul(yield_HC, RSub(One, feedstock.moisture))
        feedstock_quantity == RDiv(One, divisor)
        with_quantity == [feedstock EXCEPT !.quantity = feedstock_quantity]
        ideal_mc == feedstock.moisture_content_target
        water_needed ==
            RDiv(RMul(with_quantity.quantity, RSub(One, ideal_mc)),
                 RSub(One, with_quantity.moisture))
    IN  IF divisor = Zero
        THEN [err |-> "ZeroDivisionError", self |-> feedstock, ret |-> Zero]
        ELSE IF RLt(with_quantity.moisture, ideal_mc)
        THEN [err |-> "none",
              self |-> [with_quantity EXCEPT !.water_added = water_needed,
                                             !.moisture = ideal_mc],
              ret |-> water_needed]
        ELSE [err |-> "none", self |-> with_quantity,
              ret |-> with_quantity.water_added]

FloatCall(op, id, yield_HC, r) ==
    [Call(op, id, objs[id].name, NoName, objs[id].temp, objs[id].time,
          r.err, NoObj, r.ret)
     EXCEPT !.yield_HC = yield_HC,
            !.again = (last.op = op /\ last.self = id
                                    /\ last.yield_HC = yield_HC)]

ComputeWaterAdded(id) ==
    LET r == compute_water_added(objs[id])
    IN  /\ objs' = [objs EXCEPT ![id] = r.self]
        /\ watered' = watered \cup {id}
        /\ last' = FloatCall("compute_water_added", id, Zero, r)
        /\ UNCHANGED <<feedstocks, data, lcia>>

GetFeedstockQuantity(yield_HC, id) ==
    LET r == get_feedstock_quantity(yield_HC, objs[id])
    IN  /\ objs' = [objs EXCEPT ![id] = r.self]
        /\ last' = FloatCall("get_feedstock_quantity", id, yield_HC, r)
        /\ UNCHANGED <<feedstocks, watered, data, lcia>>

GetWaterQuantity(yield_HC, id) ==
    LET r == get_water_quantity(yield_HC, objs[id])
    IN  /\ objs' = [objs EXCEPT ![id] = r.self]
        /\ watered' = watered \cup {id}
        /\ last' = FloatCall("get_water_quantity", id, yield_HC, r)
        /\ UNCHANGED <<feedstocks, data, lcia>>

-----------------------------------------------------------------------------
(* One feedstock through the quantity and water steps.                     *)

Yields == {R(1, 2)}
Moistures == {R(3, 5), R(9, 10)}

NextWater ==
    \/ /\ Len(objs) < MaxWaterObjects
       /\ \E row \in FeedsProperties :
            NewElementary(row, DefaultTime, DefaultTemp)
    \/ \E id \in Ids, moisture \in Moistures :
            SetMoisture(id, moisture, R(1, 10))
    \/ \E id \in Ids, yield_HC \in Yields : GetFeedstockQuantity(yield_HC, id)
    \/ \E id \in Ids : ComputeWaterAdded(id)
    \/ \E id \in Ids, yield_HC \in Yields : GetWaterQuantity(yield_HC, id)

SpecWater == Init /\ [][NextWater]_vars

-----------------------------------------------------------------------------
(* Feedstocks whose moisture is set after construction.                    *)

NextMoistureTarget ==
    \/ /\ Len(objs) < MaxObjects
       /\ \E row \in FeedsProperties :
            NewElementary(row, DefaultTime, DefaultTemp)
    \/ /\ Len(objs) < MaxObjects
       /\ \E name \in CompositeNames :
            NewComposite(name, DefaultTime, DefaultTemp)
    \/ /\ Len(feedstocks) < MaxRegistry
       /\ \E id \in Ids : AddFeedstock(id)
    \/ /\ Len(objs) < MaxObjects
       /\ Len(feedstocks) < MaxRegistry
       /\ \E row \in FeedsProperties :
            DuplicateFeedstock(row.Feed, StdSRU, DefaultTemp, DefaultTime)
    \/ \E id \in Ids, moisture \in Moistures :
            SetMoisture(id, moisture, R(1, 10))
    \/ \E id \in Composites : ComputeMoisture(id)
    \/ \E id \in Ids : ComputeWaterAdded(id)

SpecMoistureTarget == Init /\ [][NextMoistureTarget]_vars

-----------------------------------------------------------------------------
(* Properties of the moisture target and of the water-addition step.       *)

(* C8: for every feedstock whose water-addition step has not run,          *)
(* moisture_target is 0.85 when its moisture does not exceed 0.85 and is   *)
(* its moisture when the moisture exceeds 0.85.                            *)
C8_TargetFollowsMoisture ==
    \A id \in Ids \ watered :
        objs[id].moisture_content_target =
            IF RLt(MoistureDefault, objs[id].moisture)
            THEN objs[id].moisture
            ELSE MoistureDefault

WaterOps == {"compute_water_added", "get_water_quantity"}

(* C9: the water-addition step on a feedstock with moisture_target >       *)
(* moisture computes quantity * (1 - moisture_target) / (1 - moisture)     *)
(* from the moisture held before the step, stores and returns it as        *)
(* water_added and then sets moisture to moisture_target;                  *)
(* compute_water_added changes no other field and no other feedstock.      *)
C9_WaterStep ==
    [][LET id == last'.self
           before == objs[id]
           after == objs'[id]
           water_needed ==
               RDiv(RMul(after.quantity,
                         RSub(One, before.moisture_content_target)),
                    RSub(One, before.moisture))
       IN  (/\ last'.op \in WaterOps
            /\ RLt(before.moisture, before.moisture_content_target))
           => /\ last'.err = "none"
              /\ after.water_added = water_needed
              /\ last'.num = water_needed
              /\ after.moisture = before.moisture_content_target
              /\ last'.op = "compute_water_added" =>
                    /\ after = [before EXCEPT
                                  !.water_added = water_needed,
                                  !.moisture = before.moisture_content_target]
                    /\ \A other \in Ids \ {id} : objs'[other] = objs[other]
                    /\ feedstocks' = feedstocks
      ]_vars

(* Water was added to a feedstock that held a quantity: the water differs  *)
(* from the quantity and from zero.                                        *)
C9_Witness ==
    /\ last.op = "compute_water_added"
    /\ ~last.again
    /\ last.num # Zero
    /\ last.num # objs[last.self].quantity
    /\ objs[last.self].water_added = last.num
    /\ objs[last.self].moisture = objs[last.self].moisture_content_target

(* C10: after one call of compute_water_added moisture equals              *)
(* moisture_target whenever the target exceeded it, and a second           *)
(* consecutive call returns the same water_added and leaves every field    *)
(* of every feedstock as the first call left it.                           *)
C10_WaterIdempotent ==
    [][last'.op = "compute_water_added" =>
        /\ RLt(objs[last'.self].moisture,
               objs[last'.self].moisture_content_target)
             => objs'[last'.self].moisture
                  = objs'[last'.self].moisture_content_target
        /\ last'.again =>
             /\ last'.err = "none"
             /\ last'.num = last.num
             /\ last'.num = objs'[last'.self].water_added
             /\ objs' = objs
             /\ feedstocks' = feedstocks
      ]_vars

(* A second consecutive call on a feedstock the first call added water to. *)
C10_Witness ==
    /\ last.op = "compute_water_added"
    /\ last.again
    /\ last.num # Zero
    /\ objs[last.self].water_added = last.num
    /\ objs[last.self].moisture = objs[last.self].moisture_content_target
    /\ RLt(MoistureDefault, objs[last.self].moisture)

(* C11: when moisture_target <= moisture, compute_water_added returns the   *)
(* water_added the feedstock holds and changes neither water_added nor     *)
(* moisture nor anything else, whatever the quantity is.                   *)
C11_WaterNoOp ==
    [][(/\ last'.op = "compute_water_added"
        /\ RLe(objs[last'.self].moisture_content_target,
               objs[last'.self].moisture))
       => /\ last'.err = "none"
          /\ last'.num = objs[last'.self].water_added
          /\ objs' = objs
          /\ feedstocks' = feedstocks
      ]_vars

(* A call on a feedstock wetter than its target that holds a quantity and  *)
(* water added earlier.                                                    *)
C11_Witness ==
    /\ last.op = "compute_water_added"
    /\ ~last.again
    /\ RLt(objs[last.self].moisture_content_target, objs[last.self].moisture)
    /\ objs[last.self].quantity # Zero
    /\ last.num # Zero
    /\ last.num = objs[last.self].water_added

-----------------------------------------------------------------------------
(* pareto.py.  A DataFrame is its index (one label per row) and the        *)
(* objective values of its rows, data.iloc[:, 1:].values; positions count  *)
(* from 0 as in Python, so that row p is values[p + 1].                    *)

AllLe(a, b) == \A k \in DOMAIN a : a[k] <= b[k]

(* AnyLt, were the comparison not strict. *)
AnyLe(a, b) == \E k \in DOMAIN a : a[k] <= b[k]

AnyLt(a, b) == \E k \in DOMAIN a : a[k] < b[k]

(* The inner loop of get_pareto_front from position j on: whether some     *)
(* other point dominates the point at position i.                          *)
RECURSIVE front_inner_loop(_, _, _)
front_inner_loop(values, i, j) ==
    IF j >= Len(values)
    THEN FALSE
    ELSE IF /\ i # j
            /\ AllLe(values[j + 1], values[i + 1])
            /\ AnyLt(values[j + 1], values[i + 1])
    THEN TRUE
    ELSE front_inner_loop(values, i, j + 1)

(* pareto_front, the boolean array, after the outer loop. *)
pareto_front_mask(values) ==
    [p \in 1..Len(values) |-> ~front_inner_loop(values, p - 1, 0)]

RECURSIVE BooleanIndex(_, _, _)
BooleanIndex(values, mask, n) ==
    IF n = 0 THEN <<>>
    ELSE BooleanIndex(values, mask, n - 1)
         \o (IF mask[n] THEN <<values[n]>> ELSE <<>>)

get_pareto_front(df) ==
    BooleanIndex(df.values, pareto_front_mask(df.values), Len(df.values))

RECURSIVE is_dominant_from(_, _, _)
is_dominant_from(solution, others, n) ==
    IF n > Len(others)
    THEN TRUE
    ELSE IF AllLe(others[n], solution) /\ AnyLt(others[n], solution)
    THEN FALSE
    ELSE is_dominant_from(solution, others, n + 1)

is_dominant(solution, others) == is_dominant_from(solution, others, 1)

(* np.delete(arr, index, axis=0) for an integer index: the row at that     *)
(* position is left out; a negative index counts from the end.             *)
NpDelete(arr, index) ==
    LET n == Len(arr)
        pos == IF index < 0 THEN index + n ELSE index
    IN  IF index < -n \/ index >= n
        THEN [err |-> "IndexError", arr |-> arr]
        ELSE [err |-> "none",
              arr |-> SubSeq(arr, 1, pos) \o SubSeq(arr, pos + 2, n)]

(* The loop of pareto_sort over data.iterrows() from row n on: iterrows    *)
(* yields each row with its index label, and the label is what np.delete   *)
(* is given.                                                               *)
RECURSIVE pareto_sort_loop(_, _, _, _)
pareto_sort_loop(df, n, dominant, non_dominant) ==
    IF n > Len(df.values)
    THEN [err |-> "none", dominant |-> dominant, non_dominant |-> non_dominant]
    ELSE LET index == df.index[n]
             row == [index |-> index, values |-> df.values[n]]
             data_point == row.values
             other_points == NpDelete(df.values, index)
         IN  IF other_points.err # "none"
             THEN [err |-> other_points.err, dominant |-> dominant,
                   non_dominant |-> non_dominant]
             ELSE IF is_dominant(data_point, other_points.arr)
             THEN pareto_sort_loop(df, n + 1, Append(dominant, row),
                                   non_dominant)
             ELSE pareto_sort_loop(df, n + 1, dominant,
                                   Append(non_dominant, row))

pareto_sort(df) == pareto_sort_loop(df, 1, <<>>, <<>>)

GetParetoFront ==
    /\ last' = [op |-> "get_pareto_front", err |-> "none",
                front |-> get_pareto_front(data)]
    /\ UNCHANGED <<objs, feedstocks, watered, data, lcia>>

ParetoSort ==
    LET r == pareto_sort(data)
    IN  /\ last' = [op |-> "pareto_sort", err |-> r.err,
                    dominant |-> r.dominant, non_dominant |-> r.non_dominant]
        /\ UNCHANGED <<objs, feedstocks, watered, data, lcia>>

-----------------------------------------------------------------------------
(* The two functions on every small table: up to MaxRows rows of two       *)
(* objectives, under every index that labels the rows 0..n-1 in some       *)
(* order (pd.DataFrame(dict) gives the order 0, 1, ..; sorting or          *)
(* filtering a frame gives the others).                                    *)

Scores == 0..1
ObjectiveVectors == [1..2 -> Scores]

IndexesOf(n) ==
    {ix \in [1..n -> 0..(n - 1)] : \A a, b \in 1..n : a # b => ix[a] # ix[b]}

DataFrames ==
    UNION {{[index |-> ix, values |-> v] :
                ix \in IndexesOf(n), v \in [1..n -> ObjectiveVectors]} :
           n \in 0..MaxRows}

InitPareto ==
    /\ objs = <<>>
    /\ feedstocks = <<>>
    /\ watered = {}
    /\ lcia = NoLcia
    /\ data \in DataFrames
    /\ last = [op |-> "DataFrame", err |-> "none"]

NextPareto ==
    \/ GetParetoFront
    \/ ParetoSort

SpecPareto == InitPareto /\ [][NextPareto]_vars

(* Row p of the table is dominated when another row is nowhere larger and  *)
(* is not the same vector.                                                 *)
DominatedAt(values, p) ==
    \E o \in DOMAIN values :
        /\ o # p
        /\ \A k \in DOMAIN values[p] : values[o][k] <= values[p][k]
        /\ values[o] # values[p]

RECURSIVE RowsWhere(_, _, _)
RowsWhere(values, keep, n) ==
    IF n = 0 THEN <<>>
    ELSE IF n \in keep
    THEN Append(RowsWhere(values, keep, n - 1), values[n])
    ELSE RowsWhere(values, keep, n - 1)

NonDominatedRows(values) == {p \in DOMAIN values : ~DominatedAt(values, p)}

(* C12: get_pareto_front returns, in table order, exactly the vectors of   *)
(* the rows that no other row dominates (minimisation); rows with the same *)
(* vector are kept together, and a table with rows has a front with rows.  *)
C12_ParetoFront ==
    (last.op = "get_pareto_front")
    => /\ last.err = "none"
       /\ last.front = RowsWhere(data.values, NonDominatedRows(data.values),
                                 Len(data.values))
       /\ (Len(data.values) > 0 => Len(last.front) > 0)

C12_Witness ==
    /\ last.op = "get_pareto_front"
    /\ Len(data.values) = 3
    /\ Len(last.front) = 2
    /\ last.front[1] = last.front[2]

(* C13: pareto_sort puts in `dominant` exactly the rows whose vectors      *)
(* get_pareto_front returns and in `non_dominant` exactly the other rows,  *)
(* every row of the table in one of the two lists and in table order.      *)
C13_SortAgreesWithFront ==
    (last.op = "pareto_sort")
    => LET n == Len(data.values)
           rows == [p \in 1..n |-> [index |-> data.index[p],
                                    values |-> data.values[p]]]
           front == NonDominatedRows(data.values)
       IN  /\ last.err = "none"
           /\ last.dominant = RowsWhere(rows, front, n)
           /\ last.non_dominant = RowsWhere(rows, (1..n) \ front, n)
           /\ [p \in 1..Len(last.dominant) |-> last.dominant[p].values]
                  = get_pareto_front(data)

-----------------------------------------------------------------------------
(* model.py, heat.  The floating-point expressions of the thermal balance  *)
(* (fourth powers, logarithms, the Stefan-Boltzmann constant) are kept as  *)
(* terms: a record naming the expression and holding the values it is      *)
(* computed from, so that two results are equal exactly when they are the  *)
(* same expression of the same values.                                     *)

(* How scipy.optimize.fsolve can end: ier = 1 with a root of the equation, *)
(* or ier in 2..5 (too many calls, xtol too small, no progress) with the   *)
(* last iterate.  Called without full_output it warns in the second case   *)
(* and returns the iterate as it returns a root.                           *)
FsolveOutcomes ==
    {[ier |-> 1, x |-> "root"]} \cup
    {[ier |-> i, x |-> "last iterate"] : i \in 2..5}

fsolve(T_R, T_O_initial_guess, outcome) ==
    [err |-> "none",
     warning |-> outcome.ier # 1,
     x |-> <<[T_O |-> outcome.x, T_R |-> T_R]>>]

get_T_o_solution(reaction_temp, outcome) ==
    LET T_R == RAdd(R(reaction_temp, 1), R(5463, 20))
        T_A == RAdd(R(20, 1), R(5463, 20))
        T_O_initial_guess == RDiv(RAdd(T_R, T_A), R(2, 1))
        solution == fsolve(T_R, T_O_initial_guess, outcome)
    IN  [err |-> solution.err, ret |-> solution.x[1]]

get_heat_flux(reaction_temp, outcome) ==
    LET T_O == get_T_o_solution(reaction_temp, outcome)
    IN  IF T_O.err # "none"
        THEN [err |-> T_O.err, ret |-> Zero]
        ELSE [err |-> "none", ret |-> [heat_flux |-> T_O.ret]]

get_reaction_heat(reaction_temp, residence_time, outcome) ==
    LET heat_flux == get_heat_flux(reaction_temp, outcome)
    IN  IF heat_flux.err # "none"
        THEN [err |-> heat_flux.err, ret |-> Zero]
        ELSE [err |-> "none",
              ret |-> [reaction_heat |-> heat_flux.ret,
                       residence_time |-> residence_time]]

total_weight(self) == RAdd(self.quantity, self.water_added)

ramping_heat(feedstock, reaction_temp) ==
    LET total_mass == total_weight(feedstock)
    IN  IF total_mass = Zero
        THEN [err |-> "ZeroDivisionError", ret |-> Zero]
        ELSE [err |-> "none",
              ret |-> [ramping_heat |-> reaction_temp,
                       water_added |-> feedstock.water_added,
                       quantity |-> feedstock.quantity,
                       percent_water |->
                           RDiv(feedstock.water_added, total_mass),
                       percent_feedstock |->
                           RDiv(feedstock.quantity, total_mass),
                       moisture_content_target |->
                           feedstock.moisture_content_target]]

get_heat_needed(feedstock, reaction_temp, residence_time, outcome) ==
    LET reaction == get_reaction_heat(reaction_temp, residence_time, outcome)
        ramping == ramping_heat(feedstock, reaction_temp)
    IN  IF reaction.err # "none"
        THEN [err |-> reaction.err, ret |-> Zero]
        ELSE IF ramping.err # "none"
        THEN [err |-> ramping.err, ret |-> Zero]
        ELSE [err |-> "none",
              ret |-> [heat_needed |-> <<reaction.ret, ramping.ret>>]]

(* The record of a call that ran the root-finder, with how the root-finder *)
(* ended.                                                                  *)
ThermalCall(op, id, reaction_temp, residence_time, outcome, r) ==
    Call(op, id, NoName, NoName, reaction_temp, residence_time,
         r.err, NoObj, r.ret) @@ [ier |-> outcome.ier]

GetToSolution(reaction_temp, outcome) ==
    /\ last' = ThermalCall("get_T_o_solution", NoObj, reaction_temp, 0,
                           outcome, get_T_o_solution(reaction_temp, outcome))
    /\ UNCHANGED <<objs, feedstocks, watered, data, lcia>>

GetHeatFlux(reaction_temp, outcome) ==
    /\ last' = ThermalCall("get_heat_flux", NoObj, reaction_temp, 0,
                           outcome, get_heat_flux(reaction_temp, outcome))
    /\ UNCHANGED <<objs, feedstocks, watered, data, lcia>>

GetReactionHeat(reaction_temp, residence_time, outcome) ==
    /\ last' = ThermalCall("get_reaction_heat", NoObj, reaction_temp,
                           residence_time, outcome,
                           get_reaction_heat(reaction_temp, residence_time,
                                             outcome))
    /\ UNCHANGED <<objs, feedstocks, watered, data, lcia>>

GetHeatNeeded(id, reaction_temp, residence_time, outcome) ==
    /\ last' = ThermalCall("get_heat_needed", id, reaction_temp,
                           residence_time, outcome,
                           get_heat_needed(objs[id], reaction_temp,
                                           residence_time, outcome))
    /\ UNCHANGED <<objs, feedstocks, watered, data, lcia>>

HTC_temp == {190, 220, 250}
HTC_reaction_time == {1, 3}

(* The reaction temperatures of the study and one, 3000 C, for which the   *)
(* balance equation has no real root.                                      *)
ReactionTemps == HTC_temp \cup {3000}

NextThermal ==
    \/ /\ Len(objs) < MaxWaterObjects
       /\ \E row \in FeedsProperties :
            NewElementary(row, DefaultTime, DefaultTemp)
    \/ \E id \in Ids, yield_HC \in Yields : GetWaterQuantity(yield_HC, id)
    \/ \E reaction_temp \in ReactionTemps, outcome \in FsolveOutcomes :
            GetToSolution(reaction_temp, outcome)
    \/ \E reaction_temp \in ReactionTemps, outcome \in FsolveOutcomes :
            GetHeatFlux(reaction_temp, outcome)
    \/ \E reaction_temp \in ReactionTemps, residence_time \in HTC_reaction_time,
          outcome \in FsolveOutcomes :
            GetReactionHeat(reaction_temp, residence_time, outcome)
    \/ \E id \in Ids, reaction_temp \in ReactionTemps,
          residence_time \in HTC_reaction_time, outcome \in FsolveOutcomes :
            GetHeatNeeded(id, reaction_temp, residence_time, outcome)

SpecThermal == Init /\ [][NextThermal]_vars

ThermalOps ==
    {"get_T_o_solution", "get_heat_flux", "get_reaction_heat",
     "get_heat_needed"}

(* C14: a call of get_T_o_solution, get_heat_flux, get_reaction_heat or    *)
(* get_heat_needed in which the root-finder did not converge ends in a     *)
(* ConvergenceFailure error and returns no number.                         *)
C14_ConvergenceFailure ==
    (last.op \in ThermalOps /\ last.ier # 1)
    => /\ last.err = "ConvergenceFailure"
       /\ last.num = Zero

-----------------------------------------------------------------------------
(* model.py, CO2 emissions.                                                *)

(* A call of get_water_quantity with the positional arguments args: the    *)
(* function takes yield_HC and feedstock.                                  *)
GetWaterQuantityArity == 2

call_get_water_quantity(args) ==
    IF Len(args) # GetWaterQuantityArity
    THEN [err |-> "TypeError", self |-> args[Len(args)], ret |-> Zero]
    ELSE get_water_quantity(args[1], args[2])

get_co2_emissions(yield_HC, gas_yield, feedstock) ==
    LET emissions(f) ==
            RMul(RMul(total_weight(f), RSub(One, f.moisture)), gas_yield)
        quantity == get_feedstock_quantity(yield_HC, feedstock)
        water == call_get_water_quantity(<<quantity.self>>)
    IN  IF feedstock.moisture # feedstock.moisture_content_target
        THEN IF quantity.err # "none"
             THEN [err |-> quantity.err, self |-> quantity.self, ret |-> Zero]
             ELSE IF water.err # "none"
             THEN [err |-> water.err, self |-> water.self, ret |-> Zero]
             ELSE [err |-> "none", self |-> water.self,
                   ret |-> emissions(water.self)]
        ELSE [err |-> "none", self |-> feedstock, ret |-> emissions(feedstock)]

GetCo2Emissions(yield_HC, gas_yield, id) ==
    LET r == get_co2_emissions(yield_HC, gas_yield, objs[id])
    IN  /\ objs' = [objs EXCEPT ![id] = r.self]
        /\ last' = FloatCall("get_co2_emissions", id, yield_HC, r)
                       @@ [gas_yield |-> gas_yield]
        /\ UNCHANGED <<feedstocks, watered, data, lcia>>

GasYields == {R(1, 10), R(1, 5)}

NextCo2 ==
    \/ /\ Len(objs) < MaxObjects
       /\ \E row \in FeedsProperties :
            NewElementary(row, DefaultTime, DefaultTemp)
    \/ \E id \in Ids, yield_HC \in Yields : GetFeedstockQuantity(yield_HC, id)
    \/ \E id \in Ids, yield_HC \in Yields : GetWaterQuantity(yield_HC, id)
    \/ \E id \in Ids, yield_HC \in Yields, gas_yield \in GasYields :
            GetCo2Emissions(yield_HC, gas_yield, id)

SpecCo2 == Init /\ [][NextCo2]_vars

(* C15: get_co2_emissions on a feedstock whose moisture differs from its   *)
(* target ends without error, with quantity = 1/(yield_HC*(1 - moisture))  *)
(* from the moisture before the call, the water step done, and returns     *)
(* (quantity + water_added)*(1 - moisture)*gas_yield; on a feedstock whose *)
(* moisture equals the target it changes no field.                         *)
C15_Co2Emissions ==
    [][(last'.op = "get_co2_emissions")
       => LET before == objs[last'.self]
              after == objs'[last'.self]
          IN  IF before.moisture # before.moisture_content_target
              THEN /\ last'.err = "none"
                   /\ after.quantity =
                          RDiv(One, RMul(last'.yield_HC,
                                         RSub(One, before.moisture)))
                   /\ RLt(before.moisture, before.moisture_content_target)
                          => /\ after.moisture = before.moisture_content_target
                             /\ after.water_added =
                                    RDiv(RMul(after.quantity,
                                              RSub(One, after.moisture)),
                                         RSub(One, before.moisture))
                   /\ last'.num =
                          RMul(RMul(RAdd(after.quantity, after.water_added),
                                    RSub(One, after.moisture)),
                               last'.gas_yield)
              ELSE objs' = objs
      ]_vars

-----------------------------------------------------------------------------
(* lcia.py.  The HydrocharLCIA instance is its __dict__: `name` and one    *)
(* dictionary per impact category, each dictionary a function from the     *)
(* process categories it holds to a score and a unit.  What a method       *)
(* returns is a value with its Python type.                                *)

ImpactCategories ==
    {"water_use", "energy_resources", "acidification", "climate_change",
     "ecotoxicity_freshwater", "eutrophication",
     "human_toxicity_carcinogenic", "human_toxicity_noncarcinogenic",
     "ozone_depletion", "particulate_matter_formation",
     "photochemical_oxidant_formation"}

LciaMethods ==
    {"create_impact_dict", "set_impact_score", "get_impact_score",
     "get_impact_unit", "get_total_impact_score", "get_impact_categories",
     "get_process_categories"}

PyNone == [type |-> "NoneType", value |-> "None"]
PyFloat(x) == [type |-> "float", value |-> x]
PyStr(s) == [type |-> "str", value |-> s]

create_impact_dict ==
    LET categories == {"Water", "Electricity - HTC", "Heat-HTC", "CO2 - HTC",
                       "Wastewater", "Electricity - Post-Processing"}
    IN  [category \in categories |-> [score |-> Zero, unit |-> ""]]

HydrocharLCIA(name) ==
    [attr \in {"name"} \cup ImpactCategories |->
        IF attr = "name" THEN name ELSE create_impact_dict]

hasattr(self, attr) == attr \in DOMAIN self \cup LciaMethods

(* Of the attributes only the impact categories hold a dictionary; `name`  *)
(* holds a string and the method names hold bound methods.                 *)
IsDict(self, attr) == attr \in DOMAIN self /\ attr # "name"

SetItem(dict, key, value) ==
    [k \in DOMAIN dict \cup {key} |-> IF k = key THEN value ELSE dict[k]]

RECURSIVE SumScores(_, _)
SumScores(dict, keys) ==
    IF keys = {} THEN Zero
    ELSE LET k == CHOOSE k \in keys : TRUE
         IN  RAdd(dict[k].score, SumScores(dict, keys \ {k}))

set_impact_score(self, impact_category, process_category, score, unit) ==
    IF hasattr(self, impact_category)
    THEN IF ~IsDict(self, impact_category)
         THEN [err |-> "TypeError", self |-> self, ret |-> PyNone]
         ELSE [err |-> "none",
               self |-> [self EXCEPT ![impact_category] =
                            SetItem(@, process_category,
                                    [score |-> score, unit |-> unit])],
               ret |-> PyNone]
    ELSE [err |-> "ValueError", self |-> self, ret |-> PyNone]

(* get_impact_score and get_impact_unit differ in the field they return. *)
get_impact_field(self, impact_category, process_category, field) ==
    IF hasattr(self, impact_category)
    THEN IF ~IsDict(self, impact_category)
         THEN [err |-> "AttributeError", ret |-> PyNone]
         ELSE IF process_category \in DOMAIN self[impact_category]
         THEN [err |-> "none",
               ret |-> IF field = "score"
                       THEN PyFloat(self[impact_category][process_category].score)
                       ELSE PyStr(self[impact_category][process_category].unit)]
         ELSE [err |-> "none", ret |-> PyNone]
    ELSE [err |-> "ValueError", ret |-> PyNone]

get_impact_score(self, impact_category, process_category) ==
    get_impact_field(self, impact_category, process_category, "score")

get_impact_unit(self, impact_category, process_category) ==
    get_impact_field(self, impact_category, process_category, "unit")

get_total_impact_score(self, impact_category) ==
    IF hasattr(self, impact_category)
    THEN IF ~IsDict(self, impact_category)
         THEN [err |-> "AttributeError", ret |-> PyNone]
         ELSE [err |-> "none",
               ret |-> PyFloat(SumScores(self[impact_category],
                                         DOMAIN self[impact_category]))]
    ELSE [err |-> "ValueError", ret |-> PyNone]

LciaCall(op, impact_category, process_category, r) ==
    [op |-> op, impact_category |-> impact_category,
     process_category |-> process_category, err |-> r.err, ret |-> r.ret]

NewHydrocharLCIA(name) ==
    /\ lcia = NoLcia
    /\ lcia' = HydrocharLCIA(name)
    /\ last' = LciaCall("HydrocharLCIA", "", "", [err |-> "none", ret |-> PyNone])
    /\ UNCHANGED <<objs, feedstocks, watered, data>>

SetImpactScore(impact_category, process_category, score, unit) ==
    LET r == set_impact_score(lcia, impact_category, process_category,
                              score, unit)
    IN  /\ lcia # NoLcia
        /\ lcia' = r.self
        /\ last' = LciaCall("set_impact_score", impact_category,
                            process_category, r)
        /\ UNCHANGED <<objs, feedstocks, watered, data>>

GetImpactScore(impact_category, process_category) ==
    /\ lcia # NoLcia
    /\ last' = LciaCall("get_impact_score", impact_category, process_category,
                        get_impact_score(lcia, impact_category,
                                         process_category))
    /\ UNCHANGED <<objs, feedstocks, watered, data, lcia>>

GetImpactUnit(impact_category, process_category) ==
    /\ lcia # NoLcia
    /\ last' = LciaCall("get_impact_unit", impact_category, process_category,
                        get_impact_unit(lcia, impact_category,
                                        process_category))
    /\ UNCHANGED <<objs, feedstocks, watered, data, lcia>>

GetTotalImpactScore(impact_category) ==
    /\ lcia # NoLcia
    /\ last' = LciaCall("get_total_impact_score", impact_category, "",
                        get_total_impact_score(lcia, impact_category))
    /\ UNCHANGED <<objs, feedstocks, watered, data, lcia>>

-----------------------------------------------------------------------------
(* One HydrocharLCIA: two of its impact categories are written and read,   *)
(* besides `name` and a category that does not exist; of the process       *)
(* categories two that the constructor creates and one that it does not.   *)

LookupCategories == {"water_use", "climate_change", "name", "noise"}
LookupProcesses == {"Water", "Wastewater", "Transport"}
LciaScores == {R(1, 1), R(2, 1)}
Units == {"kg"}

NextLcia ==
    \/ NewHydrocharLCIA("hydrochar")
    \/ \E impact_category \in LookupCategories,
          process_category \in LookupProcesses,
          score \in LciaScores, unit \in Units :
            SetImpactScore(impact_category, process_category, score, unit)
    \/ \E impact_category \in LookupCategories,
          process_category \in LookupProcesses :
            GetImpactScore(impact_category, process_category)
    \/ \E impact_category \in LookupCategories,
          process_category \in LookupProcesses :
            GetImpactUnit(impact_category, process_category)
    \/ \E impact_category \in LookupCategories :
            GetTotalImpactScore(impact_category)

SpecLcia == Init /\ [][NextLcia]_vars

(* C16: a lookup that names an impact category the object does not have,   *)
(* or a process category its impact category does not hold, fails with the *)
(* not-found error and returns nothing, None included; a lookup of a       *)
(* (category, process) that is present returns the score or the unit held  *)
(* for it.                                                                 *)
C16_LookupNotFound ==
    (last.op \in {"get_impact_score", "get_impact_unit",
                  "get_total_impact_score"})
    => LET category_found == last.impact_category \in ImpactCategories
           process_found ==
               /\ category_found
               /\ last.process_category \in DOMAIN lcia[last.impact_category]
       IN  /\ ~category_found => last.err = "ValueError"
           /\ (last.op # "get_total_impact_score" /\ ~process_found)
                  => last.err = "ValueError"
           /\ last.err = "none" => last.ret.type # "NoneType"
           /\ (last.op = "get_impact_score" /\ process_found)
                  => /\ last.err = "none"
                     /\ last.ret = PyFloat(lcia[last.impact_category]
                                               [last.process_category].score)
           /\ (last.op = "get_impact_unit" /\ process_found)
                  => /\ last.err = "none"
                     /\ last.ret = PyStr(lcia[last.impact_category]
                                             [last.process_category].unit)

-----------------------------------------------------------------------------
(* model.py, electricity.  The mixing power N_p * rho * N**3 * D**5 with   *)
(* N_p = 94.043 * R_e ** -0.599 and R_e = N * D**2 * (rho / mu) is a       *)
(* constant times rho ** 0.401: it is kept as a term of rho, two rates     *)
(* being equal exactly when the densities they are computed from are.      *)

get_electricity_rate(feedstock) ==
    LET total_mass == total_weight(feedstock)
        percent_water == RDiv(feedstock.water_added, total_mass)
        percent_feedstock == RDiv(feedstock.quantity, total_mass)
        density == RAdd(RMul(percent_feedstock, feedstock.density),
                        RMul(percent_water, R(1000, 1)))
        rho == density
    IN  IF total_mass = Zero
        THEN [err |-> "ZeroDivisionError", self |-> feedstock, ret |-> Zero]
        ELSE [err |-> "none",
              self |-> [feedstock EXCEPT !.density = density],
              ret |-> [electricity_mixing |-> rho]]

heating_rate_default == 1500

get_ramping_time(ramping, heating_rate) ==
    [ramping_time |-> ramping, heating_rate |-> heating_rate]

get_electricity_needed(feedstock, residence_time, reaction_temp, heating_rate) ==
    LET electricity_rate == get_electricity_rate(feedstock)
        ramping == ramping_heat(electricity_rate.self, reaction_temp)
        time == [sum |-> <<get_ramping_time(ramping.ret, heating_rate),
                           residence_time>>]
    IN  IF electricity_rate.err # "none"
        THEN [err |-> electricity_rate.err, self |-> electricity_rate.self,
              ret |-> Zero, rate |-> Zero]
        ELSE IF ramping.err # "none"
        THEN [err |-> ramping.err, self |-> electricity_rate.self,
              ret |-> Zero, rate |-> Zero]
        ELSE [err |-> "none", self |-> electricity_rate.self,
              ret |-> [electricity_needed |-> <<electricity_rate.ret, time>>],
              rate |-> electricity_rate.ret]

GetElectricityRate(id) ==
    LET r == get_electricity_rate(objs[id])
    IN  /\ objs' = [objs EXCEPT ![id] = r.self]
        /\ last' = FloatCall("get_electricity_rate", id, Zero, r)
                       @@ [rate |-> r.ret]
        /\ UNCHANGED <<feedstocks, watered, data, lcia>>

GetElectricityNeeded(id, residence_time, reaction_temp) ==
    LET r == get_electricity_needed(objs[id], residence_time, reaction_temp,
                                    heating_rate_default)
    IN  /\ objs' = [objs EXCEPT ![id] = r.self]
        /\ last' = FloatCall("get_electricity_needed", id, Zero, r)
                       @@ [rate |-> r.rate]
        /\ UNCHANGED <<feedstocks, watered, data, lcia>>

(* The density is a new fraction after every call that blends: the calls   *)
(* stop once its denominator has passed MaxDensityDenominator.             *)
DensityInRange(id) == objs[id].density[2] <= MaxDensityDenominator

NextElectricity ==
    \/ /\ Len(objs) < MaxObjects
       /\ \E row \in FeedsProperties :
            NewElementary(row, DefaultTime, DefaultTemp)
    \/ \E id \in Ids, yield_HC \in Yields :
            /\ id \notin watered
            /\ GetWaterQuantity(yield_HC, id)
    \/ \E id \in Ids : DensityInRange(id) /\ GetElectricityRate(id)
    \/ \E id \in Ids, residence_time \in HTC_reaction_time,
          reaction_temp \in HTC_temp :
            /\ DensityInRange(id)
            /\ GetElectricityNeeded(id, residence_time, reaction_temp)

SpecElectricity == Init /\ [][NextElectricity]_vars

ElectricityOps == {"get_electricity_rate", "get_electricity_needed"}

DryDensity(name) ==
    (CHOOSE row \in FeedsProperties : row.Feed = name).density

(* C17: on a feedstock that water has been blended into, a call of         *)
(* get_electricity_rate, direct or through get_electricity_needed, leaves  *)
(* density at percent_feedstock*dry_density + percent_water*1000 with the  *)
(* dry density the feedstock was created with, changes no other field, and *)
(* returns the rate that the call before it on the same feedstock          *)
(* returned.                                                               *)
C17_DensityDerivedOnce ==
    [][(/\ last'.op \in ElectricityOps
        /\ objs[last'.self].water_added # Zero)
       => LET before == objs[last'.self]
              after == objs'[last'.self]
              total_mass == RAdd(before.quantity, before.water_added)
          IN  /\ last'.err = "none"
              /\ after.density =
                     RAdd(RMul(RDiv(before.quantity, total_mass),
                               DryDensity(before.name)),
                          RMul(RDiv(before.water_added, total_mass),
                               R(1000, 1)))
              /\ after = [before EXCEPT !.density = after.density]
              /\ (last.op \in ElectricityOps /\ last.self = last'.self)
                     => last'.rate = last.rate
      ]_vars

-----------------------------------------------------------------------------
(* Feedstocks through get_feedstock_quantity and get_water_quantity only,  *)
(* with one yield_HC.                                                      *)

NextQuantity ==
    \/ /\ Len(objs) < MaxObjects
       /\ \E row \in FeedsProperties :
            NewElementary(row, DefaultTime, DefaultTemp)
    \/ \E id \in Ids, yield_HC \in Yields : GetFeedstockQuantity(yield_HC, id)
    \/ \E id \in Ids, yield_HC \in Yields : GetWaterQuantity(yield_HC, id)

SpecQuantity == Init /\ [][NextQuantity]_vars

QuantityOps == {"get_feedstock_quantity", "get_water_quantity"}

(* The moisture a feedstock was created with. *)
PreHydrationMoisture(name) ==
    (CHOOSE row \in FeedsProperties : row.Feed = name).moisture

QuantityAt(yield_HC, moisture) ==
    RDiv(One, RMul(yield_HC, RSub(One, moisture)))

(* C18, as stated: a feedstock with pre-hydration moisture m0 below its    *)
(* target, once a quantity call has set its quantity, holds quantity =     *)
(* 1/(yield_HC*(1 - m0)) and, once water was added, water_added =          *)
(* quantity*(1 - moisture_target)/(1 - m0), whatever calls were made.      *)
C18_QuantityFromPreHydration ==
    \A id \in Ids, yield_HC \in Yields :
        LET f == objs[id]
            m0 == PreHydrationMoisture(f.name)
        IN  (RLt(m0, f.moisture_content_target) /\ f.quantity # Zero)
            => /\ f.quantity = QuantityAt(yield_HC, m0)
               /\ f.water_added # Zero
                    => f.water_added =
                           RDiv(RMul(f.quantity,
                                     RSub(One, f.moisture_content_target)),
                                RSub(One, m0))

(* C18, amended: each call of get_feedstock_quantity or get_water_quantity *)
(* sets quantity to 1/(yield_HC*(1 - moisture)) from the moisture the      *)
(* feedstock holds when called.  Up to and including the first             *)
(* get_water_quantity call that is 1/(yield_HC*(1 - m0)), and that call    *)
(* sets water_added = quantity*(1 - moisture_target)/(1 - m0); a later     *)
(* call recomputes quantity as 1/(yield_HC*(1 - moisture_target)) from the *)
(* overwritten moisture and leaves water_added as it was.                  *)
C18_QuantityFromHeldMoisture ==
    [][(last'.op \in QuantityOps)
       => LET before == objs[last'.self]
              after == objs'[last'.self]
              m0 == PreHydrationMoisture(before.name)
              target == before.moisture_content_target
          IN  /\ last'.err = "none"
              /\ after.quantity = QuantityAt(last'.yield_HC, before.moisture)
              /\ (RLt(m0, target) /\ last'.self \notin watered)
                     => /\ before.moisture = m0
                        /\ after.quantity = QuantityAt(last'.yield_HC, m0)
                        /\ last'.op = "get_water_quantity"
                             => after.water_added =
                                    RDiv(RMul(after.quantity,
                                              RSub(One, target)),
                                         RSub(One, m0))
              /\ (RLt(m0, target) /\ last'.self \in watered)
                     => /\ after.quantity = QuantityAt(last'.yield_HC, target)
                        /\ after.water_added = before.water_added
      ]_vars

(* A quantity call after the water was added: the quantity is the one of   *)
(* the target moisture, the water the one of the first quantity.           *)
C18_Witness ==
    /\ last.op = "get_feedstock_quantity"
    /\ last.self \in watered
    /\ LET f == objs[last.self]
           m0 == PreHydrationMoisture(f.name)
       IN  /\ RLt(m0, f.moisture_content_target)
           /\ f.moisture = f.moisture_content_target
           /\ f.quantity = QuantityAt(last.yield_HC, f.moisture_content_target)
           /\ f.quantity # QuantityAt(last.yield_HC, m0)
           /\ f.water_added =
                  RDiv(RMul(QuantityAt(last.yield_HC, m0),
                            RSub(One, f.moisture_content_target)),
                       RSub(One, m0))

=============================================================================
